---- MODULE Spec2Model ----
(***************************************************************************)
(* Model of rustwebserver (src/src/main.rs): handle_connection,            *)
(* handle_get, handle_post, respond_with_error and get_content_type over   *)
(* a small file system and a byte-level request (Spec), main with its      *)
(* listener loop and one thread per connection (SpecMain), and             *)
(* get_content_type on its own (SpecMime).                                 *)
(*                                                                         *)
(* Text is a sequence of one-byte symbols.  ASCII bytes are one-character  *)
(* strings; NUL is the zero byte of the read buffer, xFF a byte that is    *)
(* not valid UTF-8, uFFFD the replacement character U+FFFD (a char, whose  *)
(* UTF-8 encoding is the three bytes xEF xBF xBD).                         *)
(***************************************************************************)
EXTENDS Integers, Sequences, FiniteSets, TLC

(***************************************************************************)
(* Bounds of the model.                                                    *)
(***************************************************************************)
\* size of the read buffer of the model (the program's is 8192 bytes)
BufSize == 80
\* most header lines a modelled request carries
MaxHeaders == 2
\* most files another process removes while one request is handled
MaxUnlinks == 1
\* connections that clients open while the listener runs
MaxConns == 2
\* most errors that accept returns
MaxAcceptErrors == 1

(***************************************************************************)
(* str primitives of the Rust standard library, as the code uses them.     *)
(***************************************************************************)
NUL == "NUL"
CR == "\r"
LF == "\n"

\* char::is_whitespace on the symbols of the model
IsWhitespace(c) == c \in {" ", "\t", "\n", "\r", "\f"}

RECURSIVE Repeat(_, _)
Repeat(c, n) == IF n <= 0 THEN <<>> ELSE <<c>> \o Repeat(c, n - 1)

\* first index of c in s, 0 when absent
RECURSIVE IndexFrom(_, _, _)
IndexFrom(s, c, i) ==
    IF i > Len(s) THEN 0
    ELSE IF s[i] = c THEN i
    ELSE IndexFrom(s, c, i + 1)

IndexOf(s, c) == IndexFrom(s, c, 1)

Contains(s, c) == IndexOf(s, c) # 0

\* str::starts_with / str::ends_with
StartsWith(s, p) == Len(p) <= Len(s) /\ SubSeq(s, 1, Len(p)) = p

EndsWith(s, p) ==
    Len(p) <= Len(s) /\ SubSeq(s, Len(s) - Len(p) + 1, Len(s)) = p

TrimOneMatch(s, c) == IF s # <<>> /\ Head(s) = c THEN Tail(s) ELSE s

\* str::trim_start_matches(c): drops EVERY leading c
RECURSIVE TrimStartMatches(_, _)
TrimStartMatches(s, c) ==
    IF s # <<>> /\ Head(s) = c THEN TrimStartMatches(Tail(s), c) ELSE s

RECURSIVE TrimStart(_)
TrimStart(s) ==
    IF s # <<>> /\ IsWhitespace(Head(s)) THEN TrimStart(Tail(s)) ELSE s

RECURSIVE TrimEnd(_)
TrimEnd(s) ==
    IF s # <<>> /\ IsWhitespace(s[Len(s)])
    THEN TrimEnd(SubSeq(s, 1, Len(s) - 1))
    ELSE s

\* str::trim
Trim(s) == TrimEnd(TrimStart(s))

\* a line of str::lines loses its "\n" and one "\r" right before it
StripCR(s) ==
    IF s # <<>> /\ s[Len(s)] = CR THEN SubSeq(s, 1, Len(s) - 1) ELSE s

\* str::lines: split after every "\n"; no empty last line; a last line
\* without "\n" is kept as it is
RECURSIVE Lines(_)
Lines(s) ==
    IF s = <<>> THEN <<>>
    ELSE LET i == IndexOf(s, LF)
         IN IF i = 0 THEN <<s>>
            ELSE <<StripCR(SubSeq(s, 1, i - 1))>>
                 \o Lines(SubSeq(s, i + 1, Len(s)))

\* str::split_whitespace: the maximal runs of non-whitespace
RECURSIVE TakeWord(_)
TakeWord(s) ==
    IF s = <<>> \/ IsWhitespace(Head(s)) THEN <<>>
    ELSE <<Head(s)>> \o TakeWord(Tail(s))

RECURSIVE SplitWhitespace(_)
SplitWhitespace(s) ==
    LET t == TrimStart(s)
    IN IF t = <<>> THEN <<>>
       ELSE LET w == TakeWord(t)
            IN <<w>> \o SplitWhitespace(SubSeq(t, Len(w) + 1, Len(t)))

\* str::split_once(':'): <<>> for None, else <<key, value>>
SplitOnce(s, c) ==
    LET i == IndexOf(s, c)
    IN IF i = 0 THEN <<>>
       ELSE <<SubSeq(s, 1, i - 1), SubSeq(s, i + 1, Len(s))>>

\* String::from_utf8_lossy: a byte that is not valid UTF-8 becomes U+FFFD
RECURSIVE from_utf8_lossy(_)
from_utf8_lossy(b) ==
    IF b = <<>> THEN <<>>
    ELSE <<IF Head(b) = "xFF" THEN "uFFFD" ELSE Head(b)>>
         \o from_utf8_lossy(Tail(b))

\* str::as_bytes: U+FFFD is the three bytes EF BF BD
RECURSIVE as_bytes(_)
as_bytes(s) ==
    IF s = <<>> THEN <<>>
    ELSE (IF Head(s) = "uFFFD" THEN <<"xEF", "xBF", "xBD">> ELSE <<Head(s)>>)
         \o as_bytes(Tail(s))

(***************************************************************************)
(* The configuration and the file system the server runs on.  A node is    *)
(* named by its canonical path, the sequence of its segments below "/".    *)
(* There are no symbolic links.                                            *)
(***************************************************************************)
\* args[2] of main, the folder that is served
root_folder == <<"/", "r">>

ScriptsPrefix == <<"s", "c", "r", "i", "p", "t", "s", "/">>

SegR == <<"r">>
SegScripts == <<"s", "c", "r", "i", "p", "t", "s">>
SegHtml == <<"a", ".", "h", "t", "m", "l">>

Dir == [kind |-> "dir", readable |-> TRUE, exec |-> TRUE, bytes |-> <<>>]

File(readable, exec, bytes) ==
    [kind |-> "file", readable |-> readable, exec |-> exec, bytes |-> bytes]

\* "/s" lies outside the root; "/r/p" has mode 000; "/r/scripts/n" is not
\* executable; "/r/a.html" holds a byte that is not UTF-8
InitialFs ==
    (<<>> :> Dir)
    @@ (<<<<"s">>>> :> File(TRUE, TRUE, <<"S">>))
    @@ (<<SegR>> :> Dir)
    @@ (<<SegR, SegHtml>> :> File(TRUE, FALSE, <<"h", "xFF">>))
    @@ (<<SegR, <<"p">>>> :> File(FALSE, FALSE, <<"q">>))
    @@ (<<SegR, <<"d">>>> :> Dir)
    @@ (<<SegR, SegScripts>> :> Dir)
    @@ (<<SegR, SegScripts, <<"k">>>> :> File(TRUE, TRUE, <<"#">>))
    @@ (<<SegR, SegScripts, <<"n">>>> :> File(TRUE, FALSE, <<"#">>))

\* the files another process may remove while a request is handled
Volatile == {<<SegR, SegHtml>>, <<SegR, SegScripts, <<"k">>>>}

\* the components of a path: the pieces between its "/"
RECURSIVE Components(_)
Components(p) ==
    LET i == IndexOf(p, "/")
    IN IF i = 0 THEN <<p>>
       ELSE <<SubSeq(p, 1, i - 1)>> \o Components(SubSeq(p, i + 1, Len(p)))

Parent(node) == IF node = <<>> THEN <<>> ELSE SubSeq(node, 1, Len(node) - 1)

NoNode == [ok |-> FALSE, at |-> <<>>]

\* path resolution of the operating system: every component but the last
\* must be a directory; "" and "." stay, ".." goes to the parent
RECURSIVE Walk(_, _, _, _)
Walk(f, cur, comps, i) ==
    IF i > Len(comps) THEN [ok |-> TRUE, at |-> cur]
    ELSE IF f[cur].kind # "dir" THEN NoNode
    ELSE IF comps[i] \in {<<>>, <<".">>} THEN Walk(f, cur, comps, i + 1)
    ELSE IF comps[i] = <<".", ".">> THEN Walk(f, Parent(cur), comps, i + 1)
    ELSE IF (cur \o <<comps[i]>>) \in DOMAIN f
         THEN Walk(f, cur \o <<comps[i]>>, comps, i + 1)
         ELSE NoNode

\* a path with a zero byte is refused before any system call
Resolve(f, p) ==
    IF p = <<>> \/ Contains(p, NUL) THEN NoNode
    ELSE Walk(f, <<>>, Components(p), 1)

PathExistsAlways(f, p) == TRUE

\* Path::new(p).exists()
PathExists(f, p) == Resolve(f, p).ok

\* the resolved node lies in the tree of root_folder
InsideRoot(f, node) == StartsWith(node, Resolve(f, root_folder).at)

FsReadAnyNode(f, p) ==
    LET r == Resolve(f, p)
    IN IF r.ok THEN <<TRUE, f[r.at].bytes>> ELSE <<FALSE, <<>>>>

\* fs::read(p): <<TRUE, bytes>> for Ok(bytes), <<FALSE, <<>>>> for Err
FsRead(f, p) ==
    LET r == Resolve(f, p)
    IN IF r.ok /\ f[r.at].kind = "file" /\ f[r.at].readable
       THEN <<TRUE, f[r.at].bytes>>
       ELSE <<FALSE, <<>>>>

\* format!("{}/{}", root_folder, path)
JoinRoot(path) == root_folder \o <<"/">> \o path

get_content_type_default(file_path) == "application/octet-stream"

get_content_type_no_case(file_path) ==
    IF EndsWith(file_path, <<".", "h", "t", "m", "l">>)
            \/ EndsWith(file_path, <<".", "H", "T", "M", "L">>)
        THEN "text/html; charset=utf-8"
    ELSE IF EndsWith(file_path, <<".", "c", "s", "s">>)
        THEN "text/css; charset=utf-8"
    ELSE IF EndsWith(file_path, <<".", "j", "s">>)
        THEN "text/javascript; charset=utf-8"
    ELSE IF EndsWith(file_path, <<".", "p", "n", "g">>)
        THEN "image/png"
    ELSE IF EndsWith(file_path, <<".", "j", "p", "g">>)
            \/ EndsWith(file_path, <<".", "j", "p", "e", "g">>)
        THEN "image/jpeg"
    ELSE IF EndsWith(file_path, <<".", "z", "i", "p">>)
        THEN "application/zip"
    ELSE "application/octet-stream"

(***************************************************************************)
(* get_content_type (main.rs 179-195)                                      *)
(***************************************************************************)
get_content_type(file_path) ==
    IF EndsWith(file_path, <<".", "h", "t", "m", "l">>)
        THEN "text/html; charset=utf-8"
    ELSE IF EndsWith(file_path, <<".", "c", "s", "s">>)
        THEN "text/css; charset=utf-8"
    ELSE IF EndsWith(file_path, <<".", "j", "s">>)
        THEN "text/javascript; charset=utf-8"
    ELSE IF EndsWith(file_path, <<".", "p", "n", "g">>)
        THEN "image/png"
    ELSE IF EndsWith(file_path, <<".", "j", "p", "g">>)
            \/ EndsWith(file_path, <<".", "j", "p", "e", "g">>)
        THEN "image/jpeg"
    ELSE IF EndsWith(file_path, <<".", "z", "i", "p">>)
        THEN "application/zip"
    ELSE "application/octet-stream"

(***************************************************************************)
(* What the handler hands to stream.write.  A "head" payload is a status   *)
(* line, the headers, the blank line and the bytes formatted after it; a   *)
(* "raw" payload is the bare bytes of a file.                              *)
(***************************************************************************)
ConnectionClose == <<"Connection", "close">>

HeadPayload(status, text, headers, body) ==
    [kind |-> "head", status |-> status, text |-> text,
     headers |-> headers, body |-> body]

RawPayload(bytes) ==
    [kind |-> "raw", status |-> 0, text |-> "", headers |-> <<>>,
     body |-> bytes]

ErrorResponseBare(status_code, status_text) ==
    HeadPayload(status_code, status_text, <<>>, <<>>)

\* the format! of respond_with_error (main.rs 170-173)
ErrorResponse(status_code, status_text) ==
    HeadPayload(status_code, status_text, <<ConnectionClose>>, <<>>)

\* the format! of handle_get (main.rs 93-96): the header alone
StaticHeader(content_type) ==
    HeadPayload(200, "OK",
                <<<<"Content-type", content_type>>, ConnectionClose>>, <<>>)

\* the format! calls of handle_post (main.rs 145-148, 153-156): the captured
\* stream goes through from_utf8_lossy and back to bytes
ScriptResponse(success, stdout, stderr) ==
    IF success
    THEN HeadPayload(200, "OK", <<ConnectionClose>>,
                     as_bytes(from_utf8_lossy(stdout)))
    ELSE HeadPayload(500, "Internal Server Error", <<ConnectionClose>>,
                     as_bytes(from_utf8_lossy(stderr)))

(***************************************************************************)
(* The bytes a client may have sent when the handler reads.                *)
(***************************************************************************)
GETs == <<"G", "E", "T">>
POSTs == <<"P", "O", "S", "T">>
PUTs == <<"P", "U", "T">>
CRLF == <<CR, LF>>
Version == <<" ", "H", "T", "T", "P", "/", "1", ".", "1">>

Methods == {GETs, POSTs, PUTs}

\* request paths: files, a directory, missing names, doubled slashes, no
\* slash, and ".." segments
RequestPaths ==
    { <<"/">> \o SegHtml,
      <<"/", "/">> \o SegHtml,
      SegHtml,
      <<"/", "x">>,
      <<"/", "d">>,
      <<"/", "p">>,
      <<"/", ".", ".", "/", "s">>,
      <<"/">> \o ScriptsPrefix \o <<"k">>,
      <<"/", "/">> \o ScriptsPrefix \o <<"k">>,
      <<"/">> \o ScriptsPrefix \o <<"n">>,
      <<"/">> \o ScriptsPrefix \o <<"x">>,
      <<"/">> \o ScriptsPrefix \o <<".", ".", "/", ".", ".", "/", "s">> }

\* first lines without a method token and a path token
BadLines == { <<>>, <<" ">>, GETs, GETs \o <<" ">>, PUTs, <<"xFF">> }

HeaderLines ==
    { <<"A", ":", " ", "b">>,
      <<"A", ":", "c">>,
      <<"M", "e", "t", "h", "o", "d", ":", " ", "G", "E", "T">>,
      <<"j", "u", "n", "k">> }

\* header blocks of at most n lines, each line ended by CR LF
RECURSIVE HeaderBlocks(_)
HeaderBlocks(n) ==
    IF n = 0 THEN {<<>>}
    ELSE LET shorter == HeaderBlocks(n - 1)
         IN shorter \cup {h \o CRLF \o b : h \in HeaderLines, b \in shorter}

Bodies == { <<>>, <<"k", ":", "v">> }

Requests ==
    {l \o t : l \in BadLines, t \in {<<>>, CRLF \o CRLF}}
    \cup {m \o <<" ">> \o p : m \in Methods, p \in RequestPaths}
    \cup {m \o <<" ">> \o p \o Version \o CRLF \o h \o CRLF \o b :
            m \in Methods, p \in RequestPaths,
            h \in HeaderBlocks(MaxHeaders), b \in Bodies}

\* what a launched script may do: exit status, captured stdout and stderr
ScriptOutputs ==
    { [code |-> 0, stdout |-> <<"h", "i">>, stderr |-> <<>>],
      [code |-> 0, stdout |-> <<"o", "xFF">>, stderr |-> <<"w">>],
      [code |-> 1, stdout |-> <<"o">>, stderr |-> <<"b", "o", "o", "m">>],
      [code |-> 2, stdout |-> <<>>, stderr |-> <<"xFF">>] }

NoOutput == [started |-> FALSE, code |-> 0, stdout |-> <<>>, stderr |-> <<>>]

(***************************************************************************)
(* State                                                                   *)
(***************************************************************************)
VARIABLES
    pc,        \* where the handler thread stands
    incoming,  \* the bytes the socket holds for the next read
    buffer,    \* handle_connection's buffer: [0; 8192]
    nreads,    \* calls of stream.read
    method,    \* handle_connection's method
    path,      \* handle_connection's path, after trim_start_matches
    fs,        \* the file system
    unlinks,   \* files removed by other processes so far
    contents,  \* handle_get's contents
    output,    \* handle_post's result of Command::output
    fsops,     \* the file-system calls of the handler, in order
    spawns,    \* the calls of Command::output, in order
    writes,    \* the calls of stream.write with their outcome, in order
    mainpc,    \* where the main thread stands
    argc,      \* args.len() of main
    errlog,    \* what main printed with eprintln
    bound,     \* the listening socket is bound
    exitcode,  \* exit status of the process, -1 while it runs
    acceptErrs, \* errors that listener.incoming() has yielded
    threads,   \* one connection each: the client's request, the handler
    mime       \* a path and the content type computed for it

handlerVars == <<pc, incoming, buffer, nreads, method, path, fs, unlinks,
                 contents, output, fsops, spawns, writes>>

mainVars == <<mainpc, argc, errlog, bound, exitcode, acceptErrs, threads>>

vars == <<handlerVars, mainVars, mime>>

Conns == 1..MaxConns

NoThread == [pc |-> "unborn", req |-> <<>>, status |-> 0]

\* main has bound the listener and runs its loop; no connection yet
MainServing ==
    /\ mainpc = "listening"
    /\ argc = 3
    /\ errlog = <<>>
    /\ bound = TRUE
    /\ exitcode = -1
    /\ acceptErrs = 0
    /\ threads = [c \in Conns |-> NoThread]

MimeIdle == mime = [path |-> <<>>, type |-> "", again |-> FALSE]

\* String::from_utf8_lossy(&buffer[..]): the WHOLE buffer, zero bytes too
request == from_utf8_lossy(buffer)

file_path == JoinRoot(path)

Init ==
    /\ pc = "accepted"
    /\ incoming \in Requests
    /\ buffer = Repeat(NUL, BufSize)
    /\ nreads = 0
    /\ method = <<>>
    /\ path = <<>>
    /\ fs = InitialFs
    /\ unlinks = 0
    /\ contents = <<>>
    /\ output = NoOutput
    /\ fsops = <<>>
    /\ spawns = <<>>
    /\ writes = <<>>
    /\ MainServing
    /\ MimeIdle

(***************************************************************************)
(* Helpers of the handler                                                  *)
(***************************************************************************)
\* stream.write(bytes): Ok(all of it), Ok(a strict prefix) or Err
WriteOutcomes(payload) ==
    IF payload.kind = "raw" /\ Len(payload.body) < 2
    THEN {"all", "err"}
    ELSE {"all", "part", "err"}

StreamWrite(payload) ==
    \E res \in WriteOutcomes(payload) :
        writes' = Append(writes, [payload |-> payload, res |-> res])

\* respond_with_error (main.rs 169-177)
respond_with_error(status_code, status_text) ==
    StreamWrite(ErrorResponse(status_code, status_text))

\* the if / else if / else of handle_connection (main.rs 66-72)
DispatchOtherAsGet(m) ==
    IF m = POSTs THEN "post" ELSE "get"

Dispatch(m) ==
    IF m = GETs THEN "get"
    ELSE IF m = POSTs THEN "post"
    ELSE "other"

InScriptsAnywhere(p) == TRUE

\* path.starts_with("scripts/") (main.rs 115)
InScripts(p) == StartsWith(p, ScriptsPrefix)

MethodKey == <<"M", "e", "t", "h", "o", "d">>
PathKey == <<"P", "a", "t", "h">>

\* the loop over request.lines().skip(1) (main.rs 132-136)
RECURSIVE HeaderVars(_, _)
HeaderVars(lines, i) ==
    IF i > Len(lines) THEN <<>>
    ELSE LET kv == SplitOnce(lines[i], ":")
         IN (IF kv = <<>> THEN <<>> ELSE << <<Trim(kv[1]), Trim(kv[2])>> >>)
            \o HeaderVars(lines, i + 1)

\* env_vars of handle_post (main.rs 128-136)
EnvVars(p, req) ==
    << <<MethodKey, POSTs>>, <<PathKey, p>> >> \o HeaderVars(Lines(req), 2)

\* Command::envs: the pairs are inserted in order into a map, so a later
\* pair replaces an earlier one with the same key
EnvMap(pairs) ==
    [k \in {pairs[i][1] : i \in 1..Len(pairs)} |->
        LET last == CHOOSE i \in 1..Len(pairs) :
                        /\ pairs[i][1] = k
                        /\ \A j \in (i + 1)..Len(pairs) : pairs[j][1] # k
        IN pairs[last][2]]

LaunchableIfPresent(f, p, env) == Resolve(f, p).ok

\* Command::output can start the child: the path names an executable file
\* and no key or value holds a zero byte
Launchable(f, p, env) ==
    LET r == Resolve(f, p)
    IN /\ r.ok
       /\ f[r.at].kind = "file"
       /\ f[r.at].exec
       /\ \A k \in DOMAIN env : ~Contains(k, NUL) /\ ~Contains(env[k], NUL)

FsOp(op, p) == [op |-> op, path |-> p, node |-> Resolve(fs, p)]

(***************************************************************************)
(* handle_connection (main.rs 42-78)                                       *)
(***************************************************************************)
\* stream.read fails: the handler logs and returns, nothing is written
StreamReadErr ==
    /\ pc = "accepted"
    /\ nreads' = nreads + 1
    /\ pc' = "read_failed"
    /\ UNCHANGED <<incoming, buffer, method, path, fs, unlinks, contents,
                   output, fsops, spawns, writes>>
    /\ UNCHANGED <<mainVars, mime>>

\* stream.read returns Ok(n): the first n bytes of the buffer are the
\* client's, the rest stays zero
StreamReadOk ==
    /\ pc = "accepted"
    /\ LET n == IF Len(incoming) < BufSize THEN Len(incoming) ELSE BufSize
       IN /\ buffer' = SubSeq(incoming, 1, n) \o Repeat(NUL, BufSize - n)
          /\ incoming' = SubSeq(incoming, n + 1, Len(incoming))
    /\ nreads' = nreads + 1
    /\ pc' = "parse"
    /\ UNCHANGED <<method, path, fs, unlinks, contents, output, fsops,
                   spawns, writes>>
    /\ UNCHANGED <<mainVars, mime>>

\* main.rs 49-64: the first line, its two tokens (unwrap panics when one is
\* missing), the path without its leading slashes
ParseRequestLine ==
    /\ pc = "parse"
    /\ LET lines == Lines(request)
       IN IF lines = <<>>
          THEN /\ respond_with_error(400, "Bad Request")
               /\ pc' = "done"
               /\ UNCHANGED <<method, path>>
          ELSE LET parts == SplitWhitespace(lines[1])
               IN IF Len(parts) < 2
                  THEN /\ pc' = "panicked"
                       /\ UNCHANGED <<method, path, writes>>
                  ELSE /\ method' = parts[1]
                       /\ path' = TrimStartMatches(parts[2], "/")
                       /\ pc' = "route"
                       /\ UNCHANGED writes
    /\ UNCHANGED <<incoming, buffer, nreads, fs, unlinks, contents, output,
                   fsops, spawns>>
    /\ UNCHANGED <<mainVars, mime>>

\* main.rs 70-72
MethodNotAllowed ==
    /\ pc = "route"
    /\ Dispatch(method) = "other"
    /\ respond_with_error(405, "Method Not Allowed")
    /\ pc' = "done"
    /\ UNCHANGED <<incoming, buffer, nreads, method, path, fs, unlinks,
                   contents, output, fsops, spawns>>
    /\ UNCHANGED <<mainVars, mime>>

(***************************************************************************)
(* handle_get (main.rs 80-109)                                             *)
(***************************************************************************)
\* main.rs 81-88
HandleGetExists ==
    /\ pc = "route"
    /\ Dispatch(method) = "get"
    /\ fsops' = Append(fsops, FsOp("exists", file_path))
    /\ IF ~PathExists(fs, file_path)
       THEN /\ respond_with_error(404, "Not Found")
            /\ pc' = "done"
       ELSE /\ pc' = "get_read"
            /\ UNCHANGED writes
    /\ UNCHANGED <<incoming, buffer, nreads, method, path, fs, unlinks,
                   contents, output, spawns>>
    /\ UNCHANGED <<mainVars, mime>>

\* main.rs 90, 104-107
HandleGetRead ==
    /\ pc = "get_read"
    /\ fsops' = Append(fsops, FsOp("read", file_path))
    /\ LET r == FsRead(fs, file_path)
       IN IF r[1]
          THEN /\ contents' = r[2]
               /\ pc' = "get_header"
               /\ UNCHANGED writes
          ELSE /\ respond_with_error(403, "Forbidden")
               /\ pc' = "done"
               /\ UNCHANGED contents
    /\ UNCHANGED <<incoming, buffer, nreads, method, path, fs, unlinks,
                   output, spawns>>
    /\ UNCHANGED <<mainVars, mime>>

\* main.rs 92-99: a failed write is logged and the handler goes on
HandleGetWriteHeader ==
    /\ pc = "get_header"
    /\ StreamWrite(StaticHeader(get_content_type(file_path)))
    /\ pc' = "get_body"
    /\ UNCHANGED <<incoming, buffer, nreads, method, path, fs, unlinks,
                   contents, output, fsops, spawns>>
    /\ UNCHANGED <<mainVars, mime>>

\* main.rs 100-102
HandleGetWriteBody ==
    /\ pc = "get_body"
    /\ StreamWrite(RawPayload(contents))
    /\ pc' = "done"
    /\ UNCHANGED <<incoming, buffer, nreads, method, path, fs, unlinks,
                   contents, output, fsops, spawns>>
    /\ UNCHANGED <<mainVars, mime>>

(***************************************************************************)
(* handle_post (main.rs 111-167)                                           *)
(***************************************************************************)
\* main.rs 112-125
HandlePostCheck ==
    /\ pc = "route"
    /\ Dispatch(method) = "post"
    /\ IF ~InScripts(path)
       THEN /\ respond_with_error(404, "Not Found")
            /\ pc' = "done"
            /\ UNCHANGED fsops
       ELSE /\ fsops' = Append(fsops, FsOp("exists", file_path))
            /\ IF ~PathExists(fs, file_path)
               THEN /\ respond_with_error(404, "Not Found")
                    /\ pc' = "done"
               ELSE /\ pc' = "post_exec"
                    /\ UNCHANGED writes
    /\ UNCHANGED <<incoming, buffer, nreads, method, path, fs, unlinks,
                   contents, output, spawns>>
    /\ UNCHANGED <<mainVars, mime>>

\* main.rs 127-142: the environment, then Command::output, which waits for
\* the child; the launch can also fail for a reason of the system
HandlePostExec ==
    /\ pc = "post_exec"
    /\ LET env == EnvMap(EnvVars(path, request))
           can == Launchable(fs, file_path, env)
       IN \E started \in (IF can THEN {TRUE, FALSE} ELSE {FALSE}) :
            /\ spawns' = Append(spawns, [path |-> file_path,
                                         node |-> Resolve(fs, file_path),
                                         env |-> env, started |-> started])
            /\ IF started
               THEN \E o \in ScriptOutputs :
                        output' = [started |-> TRUE, code |-> o.code,
                                   stdout |-> o.stdout, stderr |-> o.stderr]
               ELSE output' = NoOutput
    /\ pc' = "post_respond"
    /\ UNCHANGED <<incoming, buffer, nreads, method, path, fs, unlinks,
                   contents, fsops, writes>>
    /\ UNCHANGED <<mainVars, mime>>

\* main.rs 143-166
HandlePostRespond ==
    /\ pc = "post_respond"
    /\ IF output.started
       THEN StreamWrite(ScriptResponse(output.code = 0, output.stdout,
                                       output.stderr))
       ELSE respond_with_error(500, "Internal Server Error")
    /\ pc' = "done"
    /\ UNCHANGED <<incoming, buffer, nreads, method, path, fs, unlinks,
                   contents, output, fsops, spawns>>
    /\ UNCHANGED <<mainVars, mime>>

(***************************************************************************)
(* The environment: another process removes a file while the request is    *)
(* being handled.                                                          *)
(***************************************************************************)
Unlink ==
    /\ pc \notin {"done", "panicked", "read_failed"}
    /\ unlinks < MaxUnlinks
    /\ \E node \in Volatile \cap DOMAIN fs :
         fs' = [n \in DOMAIN fs \ {node} |-> fs[n]]
    /\ unlinks' = unlinks + 1
    /\ UNCHANGED <<pc, incoming, buffer, nreads, method, path, contents,
                   output, fsops, spawns, writes>>
    /\ UNCHANGED <<mainVars, mime>>

Next ==
    \/ StreamReadErr
    \/ StreamReadOk
    \/ ParseRequestLine
    \/ MethodNotAllowed
    \/ HandleGetExists
    \/ HandleGetRead
    \/ HandleGetWriteHeader
    \/ HandleGetWriteBody
    \/ HandlePostCheck
    \/ HandlePostExec
    \/ HandlePostRespond
    \/ Unlink

Spec == Init /\ [][Next]_vars

(***************************************************************************)
(* What the claims speak about, read off the state.                        *)
(***************************************************************************)
\* the handler thread has ended: it returned or it panicked
Ended == pc \in {"done", "panicked"}

\* the tokens of the first line of the bytes in the buffer
FirstLineTokens ==
    LET lines == Lines(request)
    IN IF lines = <<>> THEN <<>> ELSE SplitWhitespace(lines[1])

WellFormed == Len(FirstLineTokens) >= 2

MethodToken == FirstLineTokens[1]

\* the path token without its leading slashes
StrippedPath == TrimStartMatches(FirstLineTokens[2], "/")

IsHead(w) == w.payload.kind = "head"

\* the responses written: the writes that begin with a status line
Responses == SelectSeq(writes, IsHead)

HasHeader(payload, h) == \E i \in DOMAIN payload.headers : payload.headers[i] = h

\* the only thing written is one bare error response with this status
AnsweredWith(status, text) ==
    /\ Len(writes) = 1
    /\ writes[1].payload = HeadPayload(status, text, <<ConnectionClose>>, <<>>)

ReadOps == SelectSeq(fsops, LAMBDA o : o.op = "read")

(***************************************************************************)
(* Claims                                                                  *)
(***************************************************************************)
\* C1: every path that handle_get reads or handle_post executes lies inside
\* root_folder, also for request paths with ".." segments or extra slashes.
C1_Containment ==
    /\ \A i \in DOMAIN fsops :
         (fsops[i].op = "read" /\ fsops[i].node.ok)
            => InsideRoot(fs, fsops[i].node.at)
    /\ \A i \in DOMAIN spawns :
         spawns[i].node.ok => InsideRoot(fs, spawns[i].node.at)

\* C2: a handler that read request bytes has written exactly one response
\* (one status line) when it ends, whatever the bytes were.
C2_ExactlyOneResponse == Ended => Len(Responses) = 1

\* C3: a first line without both a method token and a path token is
\* answered 400 Bad Request, and nothing is routed.
C3_MalformedGives400 ==
    (Ended /\ ~WellFormed)
        => /\ AnsweredWith(400, "Bad Request")
           /\ fsops = <<>>
           /\ spawns = <<>>

\* C4: a request line with a method token other than GET and POST (and a
\* path token) ends in exactly the response 405 Method Not Allowed, with no
\* file-system call and no process launched, whatever the path is.
C4_OtherMethod405 ==
    (WellFormed /\ MethodToken \notin {GETs, POSTs})
        => /\ pc # "panicked"
           /\ fsops = <<>>
           /\ spawns = <<>>
           /\ pc = "done" => AnsweredWith(405, "Method Not Allowed")
           /\ pc # "done" => writes = <<>>

C4_Witness ==
    /\ pc = "done"
    /\ WellFormed
    /\ MethodToken = PUTs
    /\ StrippedPath = SegHtml
    /\ PathExists(fs, JoinRoot(StrippedPath))
    /\ AnsweredWith(405, "Method Not Allowed")

\* C5: a POST whose stripped path does not begin with "scripts/" is answered
\* 404 whether or not the file exists; a child is launched at most once per
\* request, only for a POST under "scripts/" whose joined path was found to
\* exist, never for a GET.
C5_ScriptsOnly ==
    /\ (pc = "done" /\ WellFormed /\ MethodToken = POSTs
            /\ ~StartsWith(StrippedPath, ScriptsPrefix))
          => (AnsweredWith(404, "Not Found") /\ spawns = <<>>)
    /\ Len(spawns) <= 1
    /\ spawns # <<>>
          => /\ WellFormed
             /\ MethodToken = POSTs
             /\ StartsWith(StrippedPath, ScriptsPrefix)
             /\ spawns[1].path = JoinRoot(StrippedPath)
             /\ Len(fsops) = 1
             /\ fsops[1].op = "exists"
             /\ fsops[1].path = spawns[1].path
             /\ fsops[1].node.ok

C5_Witness ==
    /\ pc = "done"
    /\ WellFormed
    /\ MethodToken = POSTs
    /\ StrippedPath = SegHtml
    /\ PathExists(fs, JoinRoot(StrippedPath))
    /\ AnsweredWith(404, "Not Found")
    /\ spawns = <<>>

\* C6: when the script was launched and has exited, exit status 0 gives 200
\* OK with the captured stdout, byte for byte, as body; any other status
\* gives 500 Internal Server Error with the captured stderr as body.
C6_ExitStatusDecides ==
    (pc = "done" /\ output.started)
        => /\ Len(writes) = 1
           /\ writes[1].payload =
                IF output.code = 0
                THEN HeadPayload(200, "OK", <<ConnectionClose>>, output.stdout)
                ELSE HeadPayload(500, "Internal Server Error",
                                 <<ConnectionClose>>, output.stderr)

\* C7: the environment of every script invocation contains Method=POST and
\* Path=<path>, whatever headers the client sent, and an entry for every
\* header line.
C7_FixedEntries ==
    \A i \in DOMAIN spawns :
        /\ MethodKey \in DOMAIN spawns[i].env
        /\ spawns[i].env[MethodKey] = POSTs
        /\ PathKey \in DOMAIN spawns[i].env
        /\ spawns[i].env[PathKey] = StrippedPath
        /\ \A j \in 2..Len(Lines(request)) :
             SplitOnce(Lines(request)[j], ":") # <<>>
                => Trim(SplitOnce(Lines(request)[j], ":")[1])
                       \in DOMAIN spawns[i].env

\* C8: a GET whose joined path is a readable regular file when it is read
\* ends with the header 200 OK carrying get_content_type of that path
\* (text/html; charset=utf-8 for ".html") and then the file's exact bytes,
\* for every form of the request line that names the file.
C8_StaticFile ==
    (pc = "done" /\ WellFormed /\ MethodToken = GETs /\ ReadOps # <<>>
        /\ ReadOps[1].node.ok
        /\ InitialFs[ReadOps[1].node.at].kind = "file"
        /\ InitialFs[ReadOps[1].node.at].readable)
    => /\ Len(writes) = 2
       /\ writes[1].payload =
            HeadPayload(200, "OK",
                        <<<<"Content-type",
                            IF EndsWith(StrippedPath, <<".", "h", "t", "m", "l">>)
                            THEN "text/html; charset=utf-8"
                            ELSE "application/octet-stream">>,
                          ConnectionClose>>, <<>>)
       /\ writes[2].payload = RawPayload(InitialFs[ReadOps[1].node.at].bytes)

C8_Witness ==
    /\ pc = "done"
    /\ FirstLineTokens[1] = GETs
    /\ FirstLineTokens[2] = <<"/", "/">> \o SegHtml
    /\ Len(writes) = 2
    /\ writes[1].payload.status = 200
    /\ HasHeader(writes[1].payload,
                 <<"Content-type", "text/html; charset=utf-8">>)
    /\ writes[2].payload.body = <<"h", "xFF">>

\* C9: a GET whose joined path does not exist ends with the one response
\* 404 Not Found with an empty body, and no file is read.
C9_MissingGives404 ==
    (pc = "done" /\ WellFormed /\ MethodToken = GETs
        /\ fsops # <<>> /\ ~fsops[1].node.ok)
    => /\ AnsweredWith(404, "Not Found")
       /\ writes[1].payload.body = <<>>
       /\ ReadOps = <<>>
       /\ spawns = <<>>

C9_Witness ==
    /\ pc = "done"
    /\ WellFormed
    /\ MethodToken = GETs
    /\ StrippedPath = <<"x">>
    /\ ~PathExists(fs, JoinRoot(StrippedPath))
    /\ AnsweredWith(404, "Not Found")

\* C10: every response written carries the header Connection: close, and
\* the handler calls stream.read at most once on the connection.
C10_ConnectionClose ==
    /\ \A i \in DOMAIN writes :
         IsHead(writes[i])
            => /\ HasHeader(writes[i].payload, ConnectionClose)
               /\ ~HasHeader(writes[i].payload, <<"Connection", "keep-alive">>)
    /\ nreads <= 1
    /\ Ended => nreads = 1

C10_Witness ==
    /\ pc = "done"
    /\ nreads = 1
    /\ Len(writes) = 1
    /\ writes[1].payload.status = 403
    /\ HasHeader(writes[1].payload, ConnectionClose)

\* the node was an executable / a readable regular file (files are removed
\* by other processes, never changed, so InitialFs tells what a node was)
WasExecutable(node) ==
    node.ok /\ InitialFs[node.at].kind = "file" /\ InitialFs[node.at].exec

WasReadableFile(node) ==
    node.ok /\ InitialFs[node.at].kind = "file" /\ InitialFs[node.at].readable

\* C14: for a POST under "scripts/": a script missing at the existence check
\* gives 404 and no launch; a launch that fails (not executable, removed
\* after the check, a failure of the system) gives the bare response 500
\* Internal Server Error; the handler never panics.
C14_LaunchFailure ==
    (WellFormed /\ MethodToken = POSTs
        /\ StartsWith(StrippedPath, ScriptsPrefix))
    => /\ pc # "panicked"
       /\ (pc = "done" /\ ~fsops[1].node.ok)
             => (AnsweredWith(404, "Not Found") /\ spawns = <<>>)
       /\ (pc = "done" /\ spawns # <<>>
             /\ (~spawns[1].started \/ ~WasExecutable(spawns[1].node)))
             => AnsweredWith(500, "Internal Server Error")

C14_Witness ==
    /\ pc = "done"
    /\ WellFormed
    /\ MethodToken = POSTs
    /\ StrippedPath = ScriptsPrefix \o <<"k">>
    /\ fsops[1].node.ok
    /\ spawns # <<>>
    /\ ~spawns[1].node.ok
    /\ AnsweredWith(500, "Internal Server Error")

\* C15: a GET whose target passed the existence check but cannot be read (a
\* directory, a file without read permission, a file removed after the
\* check) ends with the bare response 403 Forbidden, never with 200.
C15_Unreadable403 ==
    (pc = "done" /\ WellFormed /\ MethodToken = GETs /\ ReadOps # <<>>
        /\ ~WasReadableFile(ReadOps[1].node))
    => /\ fsops[1].node.ok
       /\ AnsweredWith(403, "Forbidden")
       /\ \A i \in DOMAIN writes : writes[i].payload.status # 200

C15_Witness ==
    /\ pc = "done"
    /\ WellFormed
    /\ MethodToken = GETs
    /\ StrippedPath = <<"d">>
    /\ ReadOps # <<>>
    /\ ReadOps[1].node.ok
    /\ fs[ReadOps[1].node.at].kind = "dir"
    /\ AnsweredWith(403, "Forbidden")

\* the lines of the header block: those after the request line, up to the
\* first empty line
RECURSIVE BlockFrom(_, _)
BlockFrom(lines, i) ==
    IF i > Len(lines) \/ lines[i] = <<>> THEN <<>>
    ELSE <<lines[i]>> \o BlockFrom(lines, i + 1)

\* C16: the environment is the overlay, in order, of Method and Path and of
\* one trimmed entry per line of the header block; lines of the request
\* body contribute nothing.
C16_HeaderBlockOnly ==
    \A i \in DOMAIN spawns :
        spawns[i].env =
            EnvMap(<< <<MethodKey, POSTs>>, <<PathKey, path>> >>
                   \o HeaderVars(BlockFrom(Lines(request), 2), 1))

StaticAnswer ==
    /\ writes # <<>>
    /\ writes[1].payload.status = 200
    /\ \E i \in DOMAIN writes[1].payload.headers :
         writes[1].payload.headers[i][1] = "Content-type"

\* C17: nothing is written before the request line is parsed; and when the
\* handler ends after a static 200, either every write was accepted in full
\* or the first failed or short write was the last write (no body after a
\* failed header write).
C17_WriteOrder ==
    /\ pc \in {"accepted", "parse"} => writes = <<>>
    /\ (pc = "done" /\ StaticAnswer)
          => \/ \A i \in DOMAIN writes : writes[i].res = "all"
             \/ /\ writes[Len(writes)].res # "all"
                /\ \A i \in 1..(Len(writes) - 1) : writes[i].res = "all"

\* the handler has parsed the request line and routes or has routed
Routed == pc \notin {"accepted", "read_failed", "parse", "panicked"}

\* C18, as stated: exactly one leading slash is stripped, so a path token
\* with k >= 1 leading slashes is routed with k - 1 of them.
C18_SingleSlash ==
    Routed =>
        path = IF FirstLineTokens[2] # <<>> /\ Head(FirstLineTokens[2]) = "/"
               THEN Tail(FirstLineTokens[2])
               ELSE FirstLineTokens[2]

\* C18, amended: every leading slash is stripped: the routed path has no
\* leading slash and is the path token without its k >= 0 leading slashes;
\* that path is the one joined to the root and tested for "scripts/", so
\* "//scripts/k" is handled as "scripts/k".
C18_AllSlashes ==
    Routed =>
        /\ path = <<>> \/ Head(path) # "/"
        /\ \E k \in 0..Len(FirstLineTokens[2]) :
             FirstLineTokens[2] = Repeat("/", k) \o path
        /\ \A i \in DOMAIN fsops :
             fsops[i].path = root_folder \o <<"/">> \o path
        /\ (pc = "done" /\ MethodToken = POSTs
              /\ FirstLineTokens[2] = <<"/", "/">> \o ScriptsPrefix \o <<"k">>)
             => fsops # <<>>

C18_Witness ==
    /\ pc = "done"
    /\ MethodToken = POSTs
    /\ FirstLineTokens[2] = <<"/", "/">> \o ScriptsPrefix \o <<"k">>
    /\ path = ScriptsPrefix \o <<"k">>
    /\ spawns # <<>>
    /\ spawns[1].started

(***************************************************************************)
(* main (main.rs 11-40): the start of the process, the listener loop and   *)
(* one thread per accepted connection.  A handler thread is followed here  *)
(* from one blocking call to the next (the read of the stream, the read of *)
(* the file, the wait for the script), with the status it answers.  When   *)
(* the main thread returns or panics the process ends, and every thread    *)
(* stops where it stands.                                                  *)
(***************************************************************************)
\* the handler variables while no handler is looked at in detail
HandlerIdle ==
    /\ pc = "unused"
    /\ incoming = <<>>
    /\ buffer = Repeat(NUL, BufSize)
    /\ nreads = 0
    /\ method = <<>>
    /\ path = <<>>
    /\ unlinks = 0
    /\ contents = <<>>
    /\ output = NoOutput
    /\ fsops = <<>>
    /\ spawns = <<>>
    /\ writes = <<>>

\* a file system on which the folder given as ROOT_FOLDER does not exist
NoRootFs ==
    [n \in {x \in DOMAIN InitialFs : ~StartsWith(x, <<SegR>>)} |-> InitialFs[n]]

\* what the clients of the listener send
ThreadRequests ==
    { GETs,
      GETs \o <<" ", "/">> \o SegHtml \o Version \o CRLF \o CRLF,
      GETs \o <<" ", "/", "x">> \o Version \o CRLF \o CRLF,
      POSTs \o <<" ", "/">> \o ScriptsPrefix \o <<"k">> \o Version
          \o CRLF \o CRLF,
      PUTs \o <<" ", "/", "x">> \o Version \o CRLF \o CRLF }

\* the request string of a handler that read these bytes (main.rs 43-49)
RequestOf(bytes) ==
    LET n == IF Len(bytes) < BufSize THEN Len(bytes) ELSE BufSize
    IN from_utf8_lossy(SubSeq(bytes, 1, n) \o Repeat(NUL, BufSize - n))

\* parts of handle_connection (main.rs 50-59)
PartsOf(bytes) ==
    LET lines == Lines(RequestOf(bytes))
    IN IF lines = <<>> THEN <<>> ELSE SplitWhitespace(lines[1])

ProcessRuns == mainpc = "listening"

InitMain ==
    /\ HandlerIdle
    /\ fs \in {InitialFs, NoRootFs}
    /\ mainpc = "start"
    /\ argc \in {1, 3}
    /\ errlog = <<>>
    /\ bound = FALSE
    /\ exitcode = -1
    /\ acceptErrs = 0
    /\ threads = [c \in Conns |-> NoThread]
    /\ MimeIdle

\* main.rs 13-19: returning from main ends the process with status 0
MainArgs ==
    /\ mainpc = "start"
    /\ IF argc # 3
       THEN /\ errlog' = Append(errlog, "Usage: rustwebserver PORT ROOT_FOLDER")
            /\ mainpc' = "exited"
            /\ exitcode' = 0
       ELSE /\ mainpc' = "check_root"
            /\ UNCHANGED <<errlog, exitcode>>
    /\ UNCHANGED <<handlerVars, argc, bound, acceptErrs, threads, mime>>

\* main.rs 21-25
MainCheckRoot ==
    /\ mainpc = "check_root"
    /\ IF ~PathExists(fs, root_folder)
       THEN /\ errlog' = Append(errlog,
                   "Error: The specified root folder does not exist")
            /\ mainpc' = "exited"
            /\ exitcode' = 0
       ELSE /\ mainpc' = "bind"
            /\ UNCHANGED <<errlog, exitcode>>
    /\ UNCHANGED <<handlerVars, argc, bound, acceptErrs, threads, mime>>

\* main.rs 27-32: TcpListener::bind(..).unwrap(); a panic of the main thread
\* ends the process with status 101
MainBind ==
    /\ mainpc = "bind"
    /\ \E ok \in BOOLEAN :
         IF ok
         THEN /\ bound' = TRUE
              /\ mainpc' = "listening"
              /\ UNCHANGED exitcode
         ELSE /\ mainpc' = "panicked"
              /\ exitcode' = 101
              /\ UNCHANGED bound
    /\ UNCHANGED <<handlerVars, argc, errlog, acceptErrs, threads, mime>>

\* a client connects and sends its request: the connection waits in the
\* backlog of the listener
ClientConnect(c) ==
    /\ ProcessRuns
    /\ bound
    /\ threads[c].pc = "unborn"
    /\ \E r \in ThreadRequests :
         threads' = [threads EXCEPT ![c] = [pc |-> "pending", req |-> r,
                                            status |-> 0]]
    /\ UNCHANGED <<handlerVars, mainpc, argc, errlog, bound, exitcode,
                   acceptErrs, mime>>

\* main.rs 33-38: incoming() yields Ok(stream); a thread is spawned for it
MainAccept(c) ==
    /\ ProcessRuns
    /\ threads[c].pc = "pending"
    /\ threads' = [threads EXCEPT ![c].pc = "accepted"]
    /\ UNCHANGED <<handlerVars, mainpc, argc, errlog, bound, exitcode,
                   acceptErrs, mime>>

\* main.rs 33-34: incoming() yields Err(e); stream.unwrap() panics in main
MainAcceptErr ==
    /\ ProcessRuns
    /\ acceptErrs < MaxAcceptErrors
    /\ acceptErrs' = acceptErrs + 1
    /\ mainpc' = "panicked"
    /\ exitcode' = 101
    /\ UNCHANGED <<handlerVars, argc, errlog, bound, threads, mime>>

ThreadGoes(c, to, status) ==
    /\ threads' = [threads EXCEPT ![c].pc = to, ![c].status = status]
    /\ UNCHANGED <<handlerVars, mainpc, argc, errlog, bound, exitcode,
                   acceptErrs, mime>>

\* main.rs 43-47: the read returns
ThreadRead(c) ==
    /\ ProcessRuns
    /\ threads[c].pc = "accepted"
    /\ \E ok \in BOOLEAN :
         ThreadGoes(c, IF ok THEN "parse" ELSE "read_failed", 0)

\* main.rs 49-64
ThreadParse(c) ==
    /\ ProcessRuns
    /\ threads[c].pc = "parse"
    /\ ThreadGoes(c, IF Len(PartsOf(threads[c].req)) < 2
                     THEN "panicked" ELSE "route", 0)

\* main.rs 66-72, 81-88, 112-125: up to the next blocking call
ThreadRoute(c) ==
    /\ ProcessRuns
    /\ threads[c].pc = "route"
    /\ LET parts == PartsOf(threads[c].req)
           p == TrimStartMatches(parts[2], "/")
           kind == Dispatch(parts[1])
       IN IF kind = "other" THEN ThreadGoes(c, "done", 405)
          ELSE IF kind = "post" /\ ~InScripts(p) THEN ThreadGoes(c, "done", 404)
          ELSE IF ~PathExists(fs, JoinRoot(p)) THEN ThreadGoes(c, "done", 404)
          ELSE ThreadGoes(c, IF kind = "get" THEN "get_read" ELSE "post_exec", 0)

\* main.rs 90-107, 127-166: the blocking call returns, the answer is written
ThreadWork(c) ==
    /\ ProcessRuns
    /\ threads[c].pc \in {"get_read", "post_exec"}
    /\ LET p == TrimStartMatches(PartsOf(threads[c].req)[2], "/")
       IN IF threads[c].pc = "get_read"
          THEN ThreadGoes(c, "done",
                          IF FsRead(fs, JoinRoot(p))[1] THEN 200 ELSE 403)
          ELSE \E o \in ScriptOutputs, started \in BOOLEAN :
                 ThreadGoes(c, "done",
                     IF /\ started
                        /\ Launchable(fs, JoinRoot(p),
                               EnvMap(EnvVars(p, RequestOf(threads[c].req))))
                        /\ o.code = 0
                     THEN 200 ELSE 500)

NextMain ==
    \/ MainArgs
    \/ MainCheckRoot
    \/ MainBind
    \/ MainAcceptErr
    \/ \E c \in Conns : ClientConnect(c)
    \/ \E c \in Conns : MainAccept(c)
    \/ \E c \in Conns : ThreadRead(c)
    \/ \E c \in Conns : ThreadParse(c)
    \/ \E c \in Conns : ThreadRoute(c)
    \/ \E c \in Conns : ThreadWork(c)

SpecMain == InitMain /\ [][NextMain]_vars

\* the handler of c is blocked in a call, or has failed
BlockedOrFailed(c) ==
    threads[c].pc \in {"accepted", "get_read", "post_exec", "panicked"}

\* C11: an error of accept does not end the listener loop: after any accept
\* error main still runs its loop and the process has not exited.
C11_AcceptErrorSurvived ==
    acceptErrs > 0 => (mainpc = "listening" /\ exitcode = -1)

\* C12: while the handler of one connection is blocked or has failed, the
\* listener loop still accepts and the handlers of the other connections
\* still run: the process is alive and none of them has been stopped.
C12_Independent ==
    \A c \in Conns : BlockedOrFailed(c) => ProcessRuns

\* C13: when the root folder does not exist at startup, main prints an
\* error, never binds the port and the process ends with a non-zero status.
C13_FailFast ==
    (argc = 3 /\ ~PathExists(fs, root_folder) /\ mainpc \notin {"start", "check_root"})
        => /\ errlog # <<>>
           /\ ~bound
           /\ mainpc = "exited"
           /\ exitcode # 0

(***************************************************************************)
(* get_content_type on its own: a path is drawn, the function is applied.  *)
(***************************************************************************)
MimeStems ==
    { <<>>,
      <<"a">>,
      root_folder \o <<"/", "a">>,
      root_folder \o <<"/", "A", ".", "b">>,
      root_folder \o <<"/", "x", ".", "h", "t", "m", "l">>,
      root_folder \o <<"/", ".", "j", "s", "/", "x">> }

MimeSuffixes ==
    { <<>>,
      <<".", "h", "t", "m", "l">>,
      <<".", "c", "s", "s">>,
      <<".", "j", "s">>,
      <<".", "p", "n", "g">>,
      <<".", "j", "p", "g">>,
      <<".", "j", "p", "e", "g">>,
      <<".", "z", "i", "p">>,
      <<".", "t", "x", "t">>,
      <<".", "H", "T", "M", "L">>,
      <<".", "J", "p", "g">>,
      <<".", "h", "t", "m">>,
      <<"h", "t", "m", "l">>,
      <<".", "z", "i", "p", "/">>,
      <<".", "p", "n", "g", ".", "b", "a", "k">>,
      <<".", "c", "s", "s", " ">> }

MimePaths == {st \o su : st \in MimeStems, su \in MimeSuffixes}

InitMime ==
    /\ HandlerIdle
    /\ fs = InitialFs
    /\ MainServing
    /\ mime \in [path : MimePaths, type : {""}, again : {FALSE}]

\* let content_type = get_content_type(&file_path) (main.rs 92)
ApplyContentType ==
    /\ mime.type = ""
    /\ mime' = [mime EXCEPT !.type = get_content_type(mime.path)]
    /\ UNCHANGED <<handlerVars, mainVars>>

\* the same call again, on the same path
ApplyContentTypeAgain ==
    /\ mime.type # ""
    /\ ~mime.again
    /\ mime' = [mime EXCEPT !.type = get_content_type(mime.path),
                            !.again = TRUE]
    /\ UNCHANGED <<handlerVars, mainVars>>

NextMime == ApplyContentType \/ ApplyContentTypeAgain

SpecMime == InitMime /\ [][NextMime]_vars

\* the part of the path from its last "." on; empty when it has none
RECURSIVE LastDotSuffix(_)
LastDotSuffix(p) ==
    IF p = <<>> THEN <<>>
    ELSE LET rest == LastDotSuffix(Tail(p))
         IN IF rest # <<>> THEN rest
            ELSE IF Head(p) = "." THEN p
            ELSE <<>>

\* C19: the content type is decided by the suffix of the path alone and with
\* its case: .html, .css, .js (charset=utf-8), .png, .jpg and .jpeg, .zip as
\* in the table, every other path application/octet-stream.
C19_MimeTable ==
    mime.type # "" =>
        LET ext == LastDotSuffix(mime.path)
        IN mime.type =
             CASE ext = <<".", "h", "t", "m", "l">> -> "text/html; charset=utf-8"
               [] ext = <<".", "c", "s", "s">> -> "text/css; charset=utf-8"
               [] ext = <<".", "j", "s">> -> "text/javascript; charset=utf-8"
               [] ext = <<".", "p", "n", "g">> -> "image/png"
               [] ext = <<".", "j", "p", "g">> -> "image/jpeg"
               [] ext = <<".", "j", "p", "e", "g">> -> "image/jpeg"
               [] ext = <<".", "z", "i", "p">> -> "application/zip"
               [] OTHER -> "application/octet-stream"

C19_Witness ==
    /\ mime.path = root_folder \o <<"/", "a", ".", "H", "T", "M", "L">>
    /\ mime.type = "application/octet-stream"

====
